---- MODULE Spec2Model ----
(***************************************************************************)
(* A model of the kqueue Watcher of src/src/lib.rs: the registration list, *)
(* the commit (watch), the removals, poll / iteration with the decoding of *)
(* one kernel event record, and teardown (Drop).  The kernel queue and the *)
(* process's descriptor table are the environment the Watcher talks to;    *)
(* they are modelled by what kqueue(2), kevent(2), open(2) and close(2)    *)
(* do for the calls the source makes.                                      *)
(***************************************************************************)
EXTENDS Integers, Sequences, FiniteSets, TLC

(***************************************************************************)
(* Bounds of the model.                                                    *)
(***************************************************************************)
\* descriptors are 0..MaxFd (the size of the process's descriptor table)
MaxFd == 3
\* the caller makes at most MaxAdds add_* calls
MaxAdds == 2
\* the caller calls watch() at most MaxCommits times
MaxCommits == 1

Fds == 0..MaxFd
\* the paths the caller names
Paths == {"a", "b"}
\* the descriptors the caller passes to add_fd and remove_fd: descriptor 0, which
\* it holds open, and descriptor 2, which it does not
CallerFds == {0, 2}
\* the process ids the caller passes to add_pid and remove_pid
Pids == {2}
\* the values of the data field of a delivered event
DataVals == {1}

(***************************************************************************)
(* Filter types and filter flags (kqueue2_sys::constants, re-exported at   *)
(* lib.rs:12).  A FilterFlag bit set is a set of flag names.               *)
(***************************************************************************)
EVFILT_READ == "EVFILT_READ"
EVFILT_WRITE == "EVFILT_WRITE"
EVFILT_VNODE == "EVFILT_VNODE"
EVFILT_PROC == "EVFILT_PROC"
EVFILT_SIGNAL == "EVFILT_SIGNAL"
EVFILT_TIMER == "EVFILT_TIMER"
EVFILT_AIO == "EVFILT_AIO"
EVFILT_SYSCOUNT == "EVFILT_SYSCOUNT"

NOTE_DELETE == "NOTE_DELETE"
NOTE_WRITE == "NOTE_WRITE"
NOTE_EXTEND == "NOTE_EXTEND"
NOTE_ATTRIB == "NOTE_ATTRIB"
NOTE_LINK == "NOTE_LINK"
NOTE_RENAME == "NOTE_RENAME"
NOTE_REVOKE == "NOTE_REVOKE"
NOTE_EXIT == "NOTE_EXIT"
NOTE_FORK == "NOTE_FORK"
NOTE_EXEC == "NOTE_EXEC"
NOTE_TRACK == "NOTE_TRACK"
NOTE_CHILD == "NOTE_CHILD"

EV_ADD == "EV_ADD"
EV_DELETE == "EV_DELETE"
EV_CLEAR == "EV_CLEAR"

\* the filters whose identity is a descriptor
FdFilters == {EVFILT_READ, EVFILT_WRITE, EVFILT_VNODE}

\* the (filter, flags) pairs the caller registers descriptors and paths with
FileInterests ==
    { <<EVFILT_VNODE, {NOTE_WRITE}>>,
      <<EVFILT_VNODE, {NOTE_WRITE, NOTE_EXTEND}>>,
      <<EVFILT_READ, {}>>,
      <<EVFILT_WRITE, {}>> }

\* the (filter, flags) pairs the caller passes to add_pid: a process, and a
\* signal or timer number
ProcInterests ==
    { <<EVFILT_PROC, {NOTE_EXIT}>>,
      <<EVFILT_SIGNAL, {}>>,
      <<EVFILT_TIMER, {}>> }

\* the filters the caller passes to remove_fd, remove_file and remove_filename
FileFilters == {EVFILT_VNODE, EVFILT_READ}

\* the filters the caller passes to remove_pid
ProcFilters == {EVFILT_PROC}

VARIABLES
    watched,      \* Watcher.watched: the registration list
    queue,        \* Watcher.queue: the kernel queue handle
    started,      \* Watcher.started
    clear,        \* Watcher.opts.clear
    dropped,      \* the Watcher has been torn down
    fdt,          \* the process's descriptor table: who holds each descriptor
    knotes,       \* the interests registered in the kernel queue
    last,         \* the last operation: its name, arguments and result
    kcalls,       \* the system calls the last operation issued, in order
    nadds,        \* the number of add_* calls so far
    watchCalls,   \* the number of watch() calls so far
    commitOk,     \* some watch() has returned Ok
    anyErr,       \* some watch() or remove_* has returned Err
    onlyRemoves   \* a watch() has returned Ok and every call since that touched
                  \* the list or the queue was a remove_* that returned Ok

vars == <<watched, queue, started, clear, dropped, fdt, knotes, last, kcalls,
          nadds, watchCalls, commitOk, anyErr, onlyRemoves>>

(***************************************************************************)
(* Ident                                                                   *)
(***************************************************************************)
Filename(fd, name) == [tag |-> "Filename", num |-> fd, name |-> name]
Fd(fd) == [tag |-> "Fd", num |-> fd]
Pid(pid) == [tag |-> "Pid", num |-> pid]
Signal(sig) == [tag |-> "Signal", num |-> sig]
Timer(t) == [tag |-> "Timer", num |-> t]

\* Ident::as_usize.  The model's descriptors and pids are not negative, where
\* the cast `as usize` keeps the value.
as_usize(id) == id.num

\* impl PartialEq for Ident: a.eq(b)
IdentEq(a, b) ==
    IF a.tag = "Filename"
    THEN IF b.tag = "Filename" THEN a.name = b.name ELSE FALSE
    ELSE as_usize(a) = as_usize(b)

Watched(filter, flags, ident) ==
    [filter |-> filter, flags |-> flags, ident |-> ident]

\* a faulty equality of registrations: the identity alone
WatchedEq_IdentOnly(a, b) == IdentEq(a.ident, b.ident)

\* #[derive(PartialEq)] for Watched: a.eq(b)
WatchedEq(a, b) ==
    /\ a.filter = b.filter
    /\ a.flags = b.flags
    /\ IdentEq(a.ident, b.ident)

\* Vec::contains: some element e of the list has e == x
Contains(list, x) == \E i \in 1..Len(list) : WatchedEq(list[i], x)

\* if !self.watched.contains(&watch) { self.watched.push(watch) }
PushUnique(list, w) == IF Contains(list, w) THEN list ELSE Append(list, w)

(***************************************************************************)
(* The environment: the descriptor table and the kernel queue.             *)
(***************************************************************************)
\* open(2) returns the lowest descriptor that is not open
LowestFree(tbl) == CHOOSE fd \in Fds : tbl[fd] = "free" /\ \A g \in Fds : g < fd => tbl[g] # "free"

IsOpen(tbl, n) == n \in Fds /\ tbl[n] # "free"

\* close(2): the descriptor becomes free; closing a free descriptor fails
\* (EBADF) and changes nothing
CloseFd(tbl, n) == IF IsOpen(tbl, n) THEN [tbl EXCEPT ![n] = "free"] ELSE tbl

\* one change record applied to the registered interests
KApply(kn, ch) ==
    LET rest == {k \in kn : ~(k.ident = ch.ident /\ k.filter = ch.filter)}
    IN  IF EV_DELETE \in ch.flags
        THEN rest
        ELSE rest \cup {[ident |-> ch.ident, filter |-> ch.filter, fflags |-> ch.fflags]}

\* the change records the kernel rejects: an interest in a descriptor that is
\* not open (EBADF), the deletion of an interest that is not registered (ENOENT)
KMustFail(kn, tbl, ch) ==
    IF EV_DELETE \in ch.flags
    THEN ~(\E k \in kn : k.ident = ch.ident /\ k.filter = ch.filter)
    ELSE ch.filter \in FdFilters /\ ~IsOpen(tbl, ch.ident)

\* the change records the kernel may reject: also an interest in a process that
\* does not exist (ESRCH)
KMayFail(kn, tbl, ch) ==
    \/ KMustFail(kn, tbl, ch)
    \/ (EV_DELETE \notin ch.flags /\ ch.filter \notin FdFilters)

\* kevent(kq, changes, n, NULL, 0, NULL): the records are applied in order; with
\* no room for an error record the first rejected one ends the call with -1,
\* the records before it staying applied.  The set of possible outcomes.
RECURSIVE KSubmit(_, _, _)
KSubmit(kn, tbl, chs) ==
    IF chs = <<>>
    THEN {[ret |-> 0, knotes |-> kn]}
    ELSE (IF KMayFail(kn, tbl, Head(chs)) THEN {[ret |-> -1, knotes |-> kn]} ELSE {})
         \cup
         (IF KMustFail(kn, tbl, Head(chs))
          THEN {}
          ELSE KSubmit(KApply(kn, Head(chs)), tbl, Tail(chs)))

\* Option<T>
None == [some |-> FALSE]
Some(v) == [some |-> TRUE, val |-> v]

\* the record get_event hands to the kernel to fill in
InitKev ==
    [ident |-> 0, data |-> 0, filter |-> EVFILT_SYSCOUNT, fflags |-> {}]

\* the event records the kernel can hold ready for the registered interests: a
\* vnode or process event carries some of the sub-flags the interest asked for
KEvents(kn) ==
    UNION { { [ident |-> k.ident, data |-> d, filter |-> k.filter, fflags |-> f] :
                d \in DataVals,
                f \in (IF k.filter \in {EVFILT_VNODE, EVFILT_PROC}
                       THEN (SUBSET k.fflags) \ {{}}
                       ELSE {{}}) } : k \in kn }

\* kevent(kq, NULL, 0, &kev, 1, tspec): the possible outcomes.  A ready event is
\* written to kev and the call returns 1.  With none ready the call returns 0 at
\* once (zero timespec) or when the time is over; a call that sleeps can be
\* interrupted (-1, EINTR, kev untouched); with a null timespec it sleeps until
\* an event or a signal comes, possibly for ever.
KWait(kn, tspec) ==
    { [returns |-> TRUE, ret |-> 1, kev |-> e] : e \in KEvents(kn) }
    \cup (IF tspec.some
          THEN {[returns |-> TRUE, ret |-> 0, kev |-> InitKev]}
          ELSE {[returns |-> FALSE, ret |-> 0, kev |-> InitKev]})
    \cup (IF tspec.some /\ tspec.val = 0
          THEN {}
          ELSE {[returns |-> TRUE, ret |-> -1, kev |-> InitKev]})

(***************************************************************************)
(* Decoding one kernel event record                                        *)
(***************************************************************************)
Panic == [kind |-> "panic"]

\* a faulty test: the flag set is exactly the one flag
FlagsContain_Only(fflags, note) == fflags = {note}

\* FilterFlag::contains
FlagsContain(fflags, note) == note \in fflags

\* a faulty lookup: the last entry of the descriptor instead of the first
RECURSIVE find_file_ident_LastMatch(_, _)
find_file_ident_LastMatch(list, fd) ==
    IF list = <<>>
    THEN None
    ELSE LET id == Head(list).ident
             rest == find_file_ident_LastMatch(Tail(list), fd)
         IN  IF rest.some THEN rest
             ELSE IF id.tag \in {"Fd", "Filename"} /\ id.num = fd THEN Some(id)
             ELSE None

RECURSIVE find_file_ident(_, _)
find_file_ident(list, fd) ==
    IF list = <<>>
    THEN None
    ELSE LET id == Head(list).ident
         IN  IF id.tag = "Fd"
             THEN IF fd = id.num THEN Some(Fd(fd)) ELSE find_file_ident(Tail(list), fd)
             ELSE IF id.tag = "Filename"
             THEN IF fd = id.num
                  THEN Some(Filename(id.num, id.name))
                  ELSE find_file_ident(Tail(list), fd)
             ELSE find_file_ident(Tail(list), fd)

\* the payload match of Event::new; None stands for the panic! arms
EventDataOf(ev) ==
    CASE ev.filter = EVFILT_READ -> Some([variant |-> "ReadReady", arg |-> ev.data])
      [] ev.filter = EVFILT_WRITE -> Some([variant |-> "WriteReady", arg |-> ev.data])
      [] ev.filter = EVFILT_SIGNAL -> Some([variant |-> "Signal", arg |-> ev.data])
      [] ev.filter = EVFILT_TIMER -> Some([variant |-> "Timer", arg |-> ev.data])
      [] ev.filter = EVFILT_PROC ->
            IF FlagsContain(ev.fflags, NOTE_EXIT)
            THEN Some([variant |-> "Proc", inner |-> "Exit", arg |-> ev.data])
            ELSE IF FlagsContain(ev.fflags, NOTE_FORK)
            THEN Some([variant |-> "Proc", inner |-> "Fork"])
            ELSE IF FlagsContain(ev.fflags, NOTE_EXEC)
            THEN Some([variant |-> "Proc", inner |-> "Exec"])
            ELSE IF FlagsContain(ev.fflags, NOTE_TRACK)
            THEN Some([variant |-> "Proc", inner |-> "Track", arg |-> ev.data])
            ELSE IF FlagsContain(ev.fflags, NOTE_CHILD)
            THEN Some([variant |-> "Proc", inner |-> "Child", arg |-> ev.data])
            ELSE None
      [] ev.filter = EVFILT_VNODE ->
            IF FlagsContain(ev.fflags, NOTE_DELETE)
            THEN Some([variant |-> "Vnode", inner |-> "Delete"])
            ELSE IF FlagsContain(ev.fflags, NOTE_WRITE)
            THEN Some([variant |-> "Vnode", inner |-> "Write"])
            ELSE IF FlagsContain(ev.fflags, NOTE_EXTEND)
            THEN Some([variant |-> "Vnode", inner |-> "Extend"])
            ELSE IF FlagsContain(ev.fflags, NOTE_ATTRIB)
            THEN Some([variant |-> "Vnode", inner |-> "Attrib"])
            ELSE IF FlagsContain(ev.fflags, NOTE_LINK)
            THEN Some([variant |-> "Vnode", inner |-> "Link"])
            ELSE IF FlagsContain(ev.fflags, NOTE_RENAME)
            THEN Some([variant |-> "Vnode", inner |-> "Rename"])
            ELSE IF FlagsContain(ev.fflags, NOTE_REVOKE)
            THEN Some([variant |-> "Vnode", inner |-> "Revoke"])
            ELSE None
      [] OTHER -> None

\* the identity match of Event::new and Event::from_error; None stands for the
\* unwrap() of a failed lookup and for the panic! arm
EventIdentOf(ev, list) ==
    CASE ev.filter \in {EVFILT_READ, EVFILT_WRITE, EVFILT_VNODE} ->
            find_file_ident(list, ev.ident)
      [] ev.filter = EVFILT_SIGNAL -> Some(Signal(ev.ident))
      [] ev.filter = EVFILT_TIMER -> Some(Timer(ev.ident))
      [] ev.filter = EVFILT_PROC -> Some(Pid(ev.ident))
      [] OTHER -> None

\* a faulty decoding: a record with no payload gets a default one
EventNew_DefaultPayload(ev, list) ==
    LET data == EventDataOf(ev)
        ident == EventIdentOf(ev, list)
    IN  IF ~ident.some THEN Panic
        ELSE [kind |-> "event", ident |-> ident.val,
              data |-> IF data.some THEN data.val
                       ELSE [variant |-> "ReadReady", arg |-> ev.data]]

EventNew(ev, list) ==
    LET data == EventDataOf(ev)
        ident == EventIdentOf(ev, list)
    IN  IF ~data.some THEN Panic
        ELSE IF ~ident.some THEN Panic
        ELSE [kind |-> "event", ident |-> ident.val, data |-> data.val]

EventFromError(ev, list) ==
    LET ident == EventIdentOf(ev, list)
    IN  IF ~ident.some THEN Panic
        ELSE [kind |-> "event", ident |-> ident.val, data |-> [variant |-> "Error"]]

\* a faulty match: a failed wait is reported as no event
GetEventResult_NoneOnError(out, list) ==
    IF out.ret = -1 \/ out.ret = 0 THEN [kind |-> "none"]
    ELSE EventNew(out.kev, list)

\* the match on the kernel's return value in get_event, for a call that returned
GetEventResult(out, list) ==
    IF out.ret = -1 THEN EventFromError(out.kev, list)
    ELSE IF out.ret = 0 THEN [kind |-> "none"]
    ELSE EventNew(out.kev, list)

\* the kernel wait call get_event issues
WaitCall(tspec, out) ==
    [call |-> "kevent", changes |-> <<>>, nevents |-> 1, timeout |-> tspec,
     returns |-> out.returns, ret |-> out.ret]

(***************************************************************************)
(* The Watcher after Watcher::new() succeeded: descriptor 0 is the caller's *)
(* (standard input), kqueue() returned the next one.                       *)
(***************************************************************************)
Init ==
    /\ watched = <<>>
    /\ queue = 1
    /\ started = FALSE
    /\ clear = TRUE
    /\ dropped = FALSE
    /\ fdt = [fd \in Fds |-> IF fd = 0 THEN "caller" ELSE IF fd = 1 THEN "queue" ELSE "free"]
    /\ knotes = {}
    /\ last = [op |-> "new", ret |-> "Ok"]
    /\ kcalls = <<[call |-> "kqueue", ret |-> 1]>>
    /\ nadds = 0
    /\ watchCalls = 0
    /\ commitOk = FALSE
    /\ anyErr = FALSE
    /\ onlyRemoves = FALSE

\* a faulty result: success whatever the kernel call returned
RetOf_Ok(ret) == "Ok"

\* Result<()> from the return value of a kernel change submission
RetOf(ret) == IF ret = -1 THEN "Err" ELSE "Ok"

\* the kernel change submission of watch and delete_kevents
SubmitCall(changes, out) ==
    [call |-> "kevent", changes |-> changes, nevents |-> 0, timeout |-> None,
     returns |-> TRUE, ret |-> out.ret]

disable_clears ==
    /\ ~dropped
    /\ clear' = FALSE
    /\ last' = [op |-> "disable_clears", ret |-> "Ok"]
    /\ kcalls' = <<>>
    /\ UNCHANGED <<watched, queue, started, dropped, fdt, knotes, nadds, watchCalls, commitOk, anyErr, onlyRemoves>>

add_pid ==
    /\ ~dropped
    /\ nadds < MaxAdds
    /\ nadds' = nadds + 1
    /\ onlyRemoves' = FALSE
    /\ \E pid \in Pids, in \in ProcInterests :
        /\ watched' = PushUnique(watched, Watched(in[1], in[2], Pid(pid)))
        /\ last' = [op |-> "add_pid", ident |-> Pid(pid), filter |-> in[1],
                    flags |-> in[2], ret |-> "Ok", lenBefore |-> Len(watched)]
    /\ kcalls' = <<>>
    /\ UNCHANGED <<queue, started, clear, dropped, fdt, knotes, watchCalls, commitOk, anyErr>>

\* File::open fails when the path cannot be opened or no descriptor is free
add_filename ==
    /\ ~dropped
    /\ nadds < MaxAdds
    /\ nadds' = nadds + 1
    /\ onlyRemoves' = FALSE
    /\ \E path \in Paths, in \in FileInterests :
        \/ /\ last' = [op |-> "add_filename", path |-> path, filter |-> in[1],
                       flags |-> in[2], ret |-> "Err", lenBefore |-> Len(watched)]
           /\ kcalls' = <<[call |-> "open", path |-> path, ret |-> -1]>>
           /\ UNCHANGED <<watched, fdt>>
        \/ /\ \E fd \in Fds : fdt[fd] = "free"
           /\ LET fd == LowestFree(fdt)
              IN  /\ fdt' = [fdt EXCEPT ![fd] = "watcher"]
                  /\ watched' = PushUnique(watched,
                                           Watched(in[1], in[2], Filename(fd, path)))
                  /\ last' = [op |-> "add_filename", path |-> path, ident |-> Filename(fd, path),
                              filter |-> in[1], flags |-> in[2], ret |-> "Ok",
                              lenBefore |-> Len(watched)]
                  /\ kcalls' = <<[call |-> "open", path |-> path, ret |-> fd]>>
    /\ UNCHANGED <<queue, started, clear, dropped, knotes, watchCalls, commitOk, anyErr>>

add_fd ==
    /\ ~dropped
    /\ nadds < MaxAdds
    /\ nadds' = nadds + 1
    /\ onlyRemoves' = FALSE
    /\ \E fd \in CallerFds, in \in FileInterests :
        /\ watched' = PushUnique(watched, Watched(in[1], in[2], Fd(fd)))
        /\ last' = [op |-> "add_fd", ident |-> Fd(fd), filter |-> in[1],
                    flags |-> in[2], ret |-> "Ok", lenBefore |-> Len(watched)]
    /\ kcalls' = <<>>
    /\ UNCHANGED <<queue, started, clear, dropped, fdt, knotes, watchCalls, commitOk, anyErr>>

\* add_file(&File): the descriptor of a file the caller holds open, through add_fd
add_file ==
    /\ ~dropped
    /\ nadds < MaxAdds
    /\ nadds' = nadds + 1
    /\ onlyRemoves' = FALSE
    /\ \E fd \in CallerFds, in \in FileInterests :
        /\ fdt[fd] = "caller"
        /\ watched' = PushUnique(watched, Watched(in[1], in[2], Fd(fd)))
        /\ last' = [op |-> "add_file", ident |-> Fd(fd), filter |-> in[1],
                    flags |-> in[2], ret |-> "Ok", lenBefore |-> Len(watched)]
    /\ kcalls' = <<>>
    /\ UNCHANGED <<queue, started, clear, dropped, fdt, knotes, watchCalls, commitOk, anyErr>>

\* the one record delete_kevents submits
DeleteRecord(ident, filter) ==
    [ident |-> as_usize(ident), filter |-> filter, flags |-> {EV_DELETE},
     fflags |-> {}, data |-> 0]

\* the tail of every remove_*: the list is replaced, then delete_kevents runs
RemoveWith(op, arg, new_watched, ident, filter) ==
    LET changes == <<DeleteRecord(ident, filter)>>
    IN  /\ watched' = new_watched
        /\ \E out \in KSubmit(knotes, fdt, changes) :
            /\ knotes' = out.knotes
            /\ kcalls' = <<SubmitCall(changes, out)>>
            /\ last' = [op |-> op, arg |-> arg, ident |-> ident, filter |-> filter,
                        ret |-> RetOf(out.ret), lenBefore |-> Len(watched)]
            /\ anyErr' = (anyErr \/ out.ret = -1)
            /\ onlyRemoves' = (onlyRemoves /\ out.ret # -1)
        /\ UNCHANGED <<queue, started, clear, dropped, fdt, nadds, watchCalls, commitOk>>

KeepNotPid(list, pid) ==
    SelectSeq(list, LAMBDA x : IF x.ident.tag = "Pid" THEN x.ident.num # pid ELSE TRUE)

\* a faulty filter: every entry with that number goes, whatever its variant
KeepNotFd_AnyVariant(list, fd) ==
    SelectSeq(list, LAMBDA x : x.ident.num # fd)

KeepNotFd(list, fd) ==
    SelectSeq(list, LAMBDA x : IF x.ident.tag = "Fd" THEN x.ident.num # fd ELSE TRUE)

KeepNotFilename(list, path) ==
    SelectSeq(list, LAMBDA x : IF x.ident.tag = "Filename" THEN x.ident.name # path ELSE TRUE)

\* `fd` of remove_filename: 0, overwritten by each entry the closure drops
RECURSIVE RemovedFilenameFd(_, _, _)
RemovedFilenameFd(list, path, fd) ==
    IF list = <<>>
    THEN fd
    ELSE LET id == Head(list).ident
         IN  IF id.tag = "Filename" /\ id.name = path
             THEN RemovedFilenameFd(Tail(list), path, id.num)
             ELSE RemovedFilenameFd(Tail(list), path, fd)

remove_pid ==
    /\ ~dropped
    /\ \E pid \in Pids, filter \in ProcFilters :
        RemoveWith("remove_pid", pid, KeepNotPid(watched, pid), Pid(pid), filter)

remove_filename ==
    /\ ~dropped
    /\ \E path \in Paths, filter \in FileFilters :
        RemoveWith("remove_filename", path, KeepNotFilename(watched, path),
                   Fd(RemovedFilenameFd(watched, path, 0)), filter)

remove_fd ==
    /\ ~dropped
    /\ \E fd \in CallerFds, filter \in FileFilters :
        RemoveWith("remove_fd", fd, KeepNotFd(watched, fd), Fd(fd), filter)

\* remove_file(&File): the descriptor of a file the caller holds open
remove_file ==
    /\ ~dropped
    /\ \E fd \in CallerFds, filter \in FileFilters :
        /\ fdt[fd] = "caller"
        /\ RemoveWith("remove_file", fd, KeepNotFd(watched, fd), Fd(fd), filter)

\* a faulty record: EV_CLEAR whatever opts.clear says
ChangeRecord_AlwaysClear(w, clr) ==
    [ident |-> w.ident.num, filter |-> w.filter, flags |-> {EV_ADD, EV_CLEAR},
     fflags |-> w.flags, data |-> 0]

\* the kevent record watch builds for one registration
ChangeRecord(w, clr) ==
    [ident |-> w.ident.num, filter |-> w.filter,
     flags |-> IF clr THEN {EV_ADD, EV_CLEAR} ELSE {EV_ADD},
     fflags |-> w.flags, data |-> 0]

\* kevs of watch
WatchChanges(list, clr) == [i \in 1..Len(list) |-> ChangeRecord(list[i], clr)]

watch ==
    /\ ~dropped
    /\ watchCalls < MaxCommits
    /\ LET kevs == WatchChanges(watched, clear)
       IN  \E out \in KSubmit(knotes, fdt, kevs) :
            /\ knotes' = out.knotes
            /\ kcalls' = <<SubmitCall(kevs, out)>>
            /\ started' = TRUE
            /\ last' = [op |-> "watch", ret |-> RetOf(out.ret)]
            /\ watchCalls' = watchCalls + 1
            /\ commitOk' = (commitOk \/ out.ret # -1)
            /\ anyErr' = (anyErr \/ out.ret = -1)
            /\ onlyRemoves' = (out.ret # -1)
    /\ UNCHANGED <<watched, queue, clear, dropped, fdt, nadds>>

\* Option<Duration> arguments of poll: None, a zero and a positive duration
PollTimeouts == {None, Some(0), Some(1)}

\* a faulty poll: None handed on as the null (block indefinitely) timeout
PollTimeout_PassThrough(timeout) == timeout

\* the timeout poll passes to get_event
PollTimeout(timeout) == IF timeout.some THEN Some(timeout.val) ELSE Some(0)

\* get_event: one kernel wait, then the match on its return value
GetEvent(op, timeout, tspec) ==
    \E out \in KWait(knotes, tspec) :
        /\ kcalls' = <<WaitCall(tspec, out)>>
        /\ last' = [op |-> op, timeout |-> timeout, kev |-> out.kev,
                    res |-> IF out.returns
                            THEN GetEventResult(out, watched)
                            ELSE [kind |-> "blocked"]]

\* a faulty poll: every wait is made with the null timeout
poll_NullTimeout ==
    /\ ~dropped
    /\ \E timeout \in PollTimeouts : GetEvent("poll", timeout, None)
    /\ UNCHANGED <<watched, queue, started, clear, dropped, fdt, knotes, nadds, watchCalls, commitOk, anyErr, onlyRemoves>>

poll ==
    /\ ~dropped
    /\ \E timeout \in PollTimeouts : GetEvent("poll", timeout, PollTimeout(timeout))
    /\ UNCHANGED <<watched, queue, started, clear, dropped, fdt, knotes, nadds, watchCalls, commitOk, anyErr, onlyRemoves>>

\* a faulty iterator: it waits whatever `started` says
next_NoStartedCheck ==
    /\ ~dropped
    /\ GetEvent("next", None, None)
    /\ UNCHANGED <<watched, queue, started, clear, dropped, fdt, knotes, nadds, watchCalls, commitOk, anyErr, onlyRemoves>>

\* EventIter::next
next ==
    /\ ~dropped
    /\ IF ~started
       THEN /\ kcalls' = <<>>
            /\ last' = [op |-> "next", timeout |-> None, kev |-> InitKev,
                        res |-> [kind |-> "none"]]
       ELSE GetEvent("next", None, None)
    /\ UNCHANGED <<watched, queue, started, clear, dropped, fdt, knotes, nadds, watchCalls, commitOk, anyErr, onlyRemoves>>

\* the descriptors Drop closes, in order: the queue, then every Fd and Filename entry
RECURSIVE DropCloses(_)
DropCloses(list) ==
    IF list = <<>>
    THEN <<>>
    ELSE IF Head(list).ident.tag \in {"Fd", "Filename"}
         THEN <<Head(list).ident.num>> \o DropCloses(Tail(list))
         ELSE DropCloses(Tail(list))

RECURSIVE CloseAll(_, _)
CloseAll(tbl, fds) ==
    IF fds = <<>> THEN tbl ELSE CloseAll(CloseFd(tbl, Head(fds)), Tail(fds))

\* impl Drop for Watcher
drop ==
    /\ ~dropped
    /\ LET closes == <<queue>> \o DropCloses(watched)
       IN  /\ kcalls' = [i \in 1..Len(closes) |-> [call |-> "close", fd |-> closes[i]]]
           /\ fdt' = CloseAll(fdt, closes)
    /\ knotes' = {}
    /\ dropped' = TRUE
    /\ last' = [op |-> "drop", ret |-> "Ok"]
    /\ onlyRemoves' = FALSE
    /\ UNCHANGED <<watched, queue, started, clear, nadds, watchCalls, commitOk, anyErr>>

Next ==
    \/ add_pid
    \/ add_filename
    \/ add_fd
    \/ add_file
    \/ remove_pid
    \/ remove_filename
    \/ remove_fd
    \/ remove_file
    \/ disable_clears
    \/ watch
    \/ poll
    \/ next
    \/ drop

Spec == Init /\ [][Next]_vars

(***************************************************************************)
(* The public functions of the decoding and of the identity equality,      *)
(* applied to records and identities of the caller's choice: Event::new    *)
(* and Event::from_error are pub and take any kevent, == on Ident takes    *)
(* any two identities.                                                     *)
(***************************************************************************)
VnodeNotes ==
    {NOTE_DELETE, NOTE_WRITE, NOTE_EXTEND, NOTE_ATTRIB, NOTE_LINK, NOTE_RENAME, NOTE_REVOKE}

ProcNotes == {NOTE_EXIT, NOTE_FORK, NOTE_EXEC, NOTE_TRACK, NOTE_CHILD}

\* every filter type of the model, the two Event::new has no arm for included
AllFilters ==
    {EVFILT_READ, EVFILT_WRITE, EVFILT_VNODE, EVFILT_PROC, EVFILT_SIGNAL,
     EVFILT_TIMER, EVFILT_AIO, EVFILT_SYSCOUNT}

\* the records handed to the decoding: every set of sub-flags of the filter's
\* own family, the empty one included; the data values are process ids and
\* counts, which ev.data `as usize` and `as pid_t` keep
DecodeIdents == {0, 2}
DecodeData == {1, 2}
DecodeRecords ==
    { [ident |-> i, data |-> d, filter |-> f, fflags |-> n] :
        i \in DecodeIdents, d \in DecodeData, f \in {EVFILT_VNODE}, n \in SUBSET VnodeNotes }
    \cup
    { [ident |-> i, data |-> d, filter |-> f, fflags |-> n] :
        i \in DecodeIdents, d \in DecodeData, f \in {EVFILT_PROC}, n \in SUBSET ProcNotes }
    \cup
    { [ident |-> i, data |-> d, filter |-> f, fflags |-> {}] :
        i \in DecodeIdents, d \in DecodeData,
        f \in AllFilters \ {EVFILT_VNODE, EVFILT_PROC} }

\* the registration lists the decoding looks descriptors up in
DecodeLists ==
    { <<>>,
      <<Watched(EVFILT_VNODE, {NOTE_WRITE}, Fd(0))>>,
      <<Watched(EVFILT_VNODE, {NOTE_WRITE}, Filename(2, "a")),
        Watched(EVFILT_READ, {}, Fd(2))>> }

\* the identities compared
EqIdents ==
    { Filename(fd, p) : fd \in {2, 3}, p \in Paths }
    \cup { Fd(n) : n \in {0, 2} } \cup { Pid(n) : n \in {0, 2} }
    \cup { Signal(n) : n \in {0, 2} } \cup { Timer(n) : n \in {0, 2} }

\* a Watcher holding one of the lists, before any commit
PureInit ==
    /\ watched \in DecodeLists
    /\ queue = 1
    /\ started = FALSE
    /\ clear = TRUE
    /\ dropped = FALSE
    /\ fdt = [fd \in Fds |->
                IF fd = 0 THEN "caller"
                ELSE IF fd = 1 THEN "queue"
                ELSE IF \E i \in 1..Len(watched) :
                            watched[i].ident.tag = "Filename" /\ watched[i].ident.num = fd
                     THEN "watcher"
                     ELSE "free"]
    /\ knotes = {}
    /\ last = [op |-> "new", ret |-> "Ok"]
    /\ kcalls = <<>>
    /\ nadds = Len(watched)
    /\ watchCalls = 0
    /\ commitOk = FALSE
    /\ anyErr = FALSE
    /\ onlyRemoves = FALSE

\* Event::new(ev, &watcher)
Event_new ==
    /\ \E ev \in DecodeRecords :
        last' = [op |-> "Event_new", kev |-> ev, res |-> EventNew(ev, watched)]
    /\ kcalls' = <<>>
    /\ UNCHANGED <<watched, queue, started, clear, dropped, fdt, knotes, nadds, watchCalls, commitOk, anyErr, onlyRemoves>>

\* Event::from_error(ev, &watcher)
Event_from_error ==
    /\ \E ev \in DecodeRecords :
        last' = [op |-> "Event_from_error", kev |-> ev, res |-> EventFromError(ev, watched)]
    /\ kcalls' = <<>>
    /\ UNCHANGED <<watched, queue, started, clear, dropped, fdt, knotes, nadds, watchCalls, commitOk, anyErr, onlyRemoves>>

\* a == b and b == a for two identities
Ident_eq ==
    /\ \E a \in EqIdents, b \in EqIdents :
        last' = [op |-> "Ident_eq", a |-> a, b |-> b,
                 ab |-> IdentEq(a, b), ba |-> IdentEq(b, a)]
    /\ kcalls' = <<>>
    /\ UNCHANGED <<watched, queue, started, clear, dropped, fdt, knotes, nadds, watchCalls, commitOk, anyErr, onlyRemoves>>

PureNext ==
    \/ Event_new
    \/ Event_from_error
    \/ Ident_eq

PureSpec == PureInit /\ [][PureNext]_vars

(***************************************************************************)
(* Claims                                                                  *)
(***************************************************************************)
AddOps == {"add_pid", "add_fd", "add_file", "add_filename"}
WaitOps == {"poll", "next"}

\* C1: `started` is true only if some earlier watch() returned success; a
\* watch() whose kernel change submission returns -1 returns an error and
\* leaves `started` false.
C1_StartedOnlyAfterSuccessfulCommit ==
    /\ started => commitOk
    /\ (last.op = "watch" /\ kcalls[1].ret = -1) => (last.ret = "Err" /\ ~started)

\* C2: the registration list never holds two entries that are equal in
\* identity (by the Ident equality), filter type and filter flags.
C2_NoTwoEqualEntries ==
    \A i, j \in 1..Len(watched) : i # j => ~WatchedEq(watched[i], watched[j])

\* the list holds a Filename entry for the path
HoldsPath(list, path) ==
    \E i \in 1..Len(list) : list[i].ident.tag = "Filename" /\ list[i].ident.name = path

C4_DeliverableEventsResolve ==
    ~anyErr =>
        \A e \in KEvents(knotes) :
            e.filter \in FdFilters => find_file_ident(watched, e.ident).some

\* C5: whenever the kernel wait of poll or of the iterator returns -1, the call
\* yields an Event with the Error payload whose identity follows the per-filter
\* rule of the record; it does not abort and does not return no event.
C5_WaitErrorYieldsErrorEvent ==
    (last.op \in WaitOps /\ Len(kcalls) = 1 /\ kcalls[1].returns /\ kcalls[1].ret = -1)
        => /\ last.res.kind = "event"
           /\ last.res.data = [variant |-> "Error"]
           /\ Some(last.res.ident) = EventIdentOf(last.kev, watched)

\* C6: while no watch() has been called, poll(None) returns no event: it does
\* not block and does not fail or abort.
C6_PollBeforeCommitIsQuiet ==
    (watchCalls = 0 /\ last.op = "poll" /\ ~last.timeout.some)
        => /\ last.res.kind = "none"
           /\ kcalls[1].returns
           /\ kcalls[1].ret = 0

\* C6 witness: poll(None) has run before any watch(), after adds and a remove
\* that left a registration in the list.
C6_Witness ==
    /\ watchCalls = 0
    /\ last.op = "poll"
    /\ ~last.timeout.some
    /\ nadds = MaxAdds
    /\ Len(watched) = 1

\* the number of close calls of the last operation for the descriptor
CloseCount(calls, fd) ==
    Cardinality({i \in 1..Len(calls) : calls[i].call = "close" /\ calls[i].fd = fd})

\* C7: teardown closes the queue handle and every descriptor the watcher
\* opened through add_filename exactly once.
C7_OwnedClosedExactlyOnce ==
    [][(dropped' /\ ~dropped)
            => \A fd \in Fds :
                fdt[fd] \in {"queue", "watcher"} => CloseCount(kcalls', fd) = 1]_vars

\* C8: teardown never closes a descriptor the caller holds and registered
\* through add_fd or add_file.
C8_BorrowedNeverClosed ==
    [][(dropped' /\ ~dropped)
            => \A fd \in Fds :
                (fdt[fd] = "caller"
                 /\ \E i \in 1..Len(watched) : watched[i].ident = Fd(fd))
                    => (CloseCount(kcalls', fd) = 0 /\ fdt'[fd] = "caller")]_vars

\* C9: each watch() issues exactly one kernel change submission with one record
\* per entry of the list, in list order: {numeric identity, filter, flags,
\* data 0} with ADD|CLEAR, or ADD alone after disable_clears; an empty list
\* gives zero records, succeeds and sets started; add_* submit nothing.
C9_WatchSubmitsTheList ==
    [][/\ (last'.op = "watch")
            => /\ Len(kcalls') = 1
               /\ kcalls'[1].call = "kevent"
               /\ kcalls'[1].nevents = 0
               /\ Len(kcalls'[1].changes) = Len(watched)
               /\ \A i \in 1..Len(watched) :
                    kcalls'[1].changes[i] =
                        [ident |-> watched[i].ident.num,
                         filter |-> watched[i].filter,
                         flags |-> IF clear THEN {EV_ADD, EV_CLEAR} ELSE {EV_ADD},
                         fflags |-> watched[i].flags,
                         data |-> 0]
               /\ (watched = <<>> => (last'.ret = "Ok" /\ started'))
       /\ (last'.op \in AddOps)
            => (\A i \in 1..Len(kcalls') : kcalls'[i].call # "kevent")]_vars

\* C9 witness: a watch() after disable_clears has submitted a list of two
\* registrations of different identities.
C9_Witness ==
    /\ last.op = "watch"
    /\ ~clear
    /\ Len(watched) = 2
    /\ watched[1].ident.num # watched[2].ident.num
    /\ Len(kcalls[1].changes) = 2

\* the entry is a Fd or Filename registration of the descriptor
IsFileEntry(w, d) == w.ident.tag \in {"Fd", "Filename"} /\ w.ident.num = d

\* C10: the identity decoded for a read, write or vnode event with descriptor d
\* is the identity of the first entry of the list whose descriptor is d (Fd if
\* registered by descriptor, Filename with its path if registered by path); for
\* process, signal and timer events it is built from the raw identity.
C10_IdentityOfFirstMatch ==
    (last.op \in WaitOps /\ last.res.kind = "event" /\ kcalls[1].ret = 1)
        => LET d == last.kev.ident
               f == last.kev.filter
           IN  /\ f \in FdFilters =>
                    \E i \in 1..Len(watched) :
                        /\ IsFileEntry(watched[i], d)
                        /\ \A j \in 1..(i - 1) : ~IsFileEntry(watched[j], d)
                        /\ last.res.ident = watched[i].ident
               /\ f = EVFILT_PROC => last.res.ident = [tag |-> "Pid", num |-> d]
               /\ f = EVFILT_SIGNAL => last.res.ident = [tag |-> "Signal", num |-> d]
               /\ f = EVFILT_TIMER => last.res.ident = [tag |-> "Timer", num |-> d]

\* C10 witness: an event was decoded for a descriptor that a Filename entry and,
\* after it, a Fd entry both carry.
C10_Witness ==
    /\ last.op \in WaitOps
    /\ last.res.kind = "event"
    /\ last.kev.filter \in FdFilters
    /\ Len(watched) = 2
    /\ watched[1].ident.tag = "Filename"
    /\ watched[2].ident.tag = "Fd"
    /\ watched[1].ident.num = last.kev.ident
    /\ watched[2].ident.num = last.kev.ident
    /\ last.res.ident = watched[1].ident

\* C11: while `started` is false the iterator's next() produces no item and
\* issues no kernel call; once `started` is true each next() issues exactly one
\* kernel wait, with the null (block indefinitely) timeout.
C11_NextWaitsOnlyWhenStarted ==
    [][(last'.op = "next")
            => IF ~started
               THEN /\ last'.res = [kind |-> "none"]
                    /\ kcalls' = <<>>
               ELSE /\ Len(kcalls') = 1
                    /\ kcalls'[1].call = "kevent"
                    /\ kcalls'[1].nevents = 1
                    /\ kcalls'[1].timeout = None]_vars

\* C11 witness: next() has waited with the null timeout on a started watcher
\* and was handed an event; the registration list is not empty.
C11_Witness ==
    /\ last.op = "next"
    /\ started
    /\ Len(kcalls) = 1
    /\ ~kcalls[1].timeout.some
    /\ kcalls[1].ret = 1
    /\ last.res.kind = "event"

\* C12: every poll issues its kernel wait with a timeout that is not null -
\* poll(None) with a zero duration, poll(Some(d)) with d - so the wait comes
\* back and the call does not block, also when no interest is registered.
C12_PollNeverBlocks ==
    (last.op = "poll")
        => /\ Len(kcalls) = 1
           /\ kcalls[1].call = "kevent"
           /\ kcalls[1].timeout.some
           /\ kcalls[1].timeout.val = (IF last.timeout.some THEN last.timeout.val ELSE 0)
           /\ kcalls[1].returns
           /\ last.res.kind # "blocked"

\* C12 witness: poll(Some(d)) with a positive d has waited with d on a queue
\* that holds no interest, and the wait came back with 0.
C12_Witness ==
    /\ last.op = "poll"
    /\ last.timeout = Some(1)
    /\ kcalls[1].timeout = Some(1)
    /\ knotes = {}
    /\ kcalls[1].returns
    /\ kcalls[1].ret = 0
    /\ last.res.kind = "none"

\* the sub-flags of the vnode decoding and their payloads, in the order checked
VnodeOrder ==
    << <<NOTE_DELETE, "Delete">>, <<NOTE_WRITE, "Write">>, <<NOTE_EXTEND, "Extend">>,
       <<NOTE_ATTRIB, "Attrib">>, <<NOTE_LINK, "Link">>, <<NOTE_RENAME, "Rename">>,
       <<NOTE_REVOKE, "Revoke">> >>

\* C13: decoding a vnode record yields the payload of the first sub-flag set,
\* in the order delete, write, extend, attrib, link, rename, revoke, also when
\* several are set; with none of them set the decoding aborts.  (With a
\* sub-flag set the decoding aborts only if the descriptor is not in the list.)
C13_VnodePayloadOfFirstFlag ==
    (last.op = "Event_new" /\ last.kev.filter = EVFILT_VNODE)
        => /\ \A i \in 1..Len(VnodeOrder) :
                (/\ VnodeOrder[i][1] \in last.kev.fflags
                 /\ \A j \in 1..(i - 1) : VnodeOrder[j][1] \notin last.kev.fflags)
                    => IF find_file_ident(watched, last.kev.ident).some
                       THEN /\ last.res.kind = "event"
                            /\ last.res.data = [variant |-> "Vnode", inner |-> VnodeOrder[i][2]]
                       ELSE last.res.kind = "panic"
           /\ (\A i \in 1..Len(VnodeOrder) : VnodeOrder[i][1] \notin last.kev.fflags)
                => last.res.kind = "panic"

\* C13 witness: a vnode record with write and extend both set was decoded to
\* the Write payload.
C13_Witness ==
    /\ last.op = "Event_new"
    /\ last.kev.filter = EVFILT_VNODE
    /\ last.kev.fflags = {NOTE_WRITE, NOTE_EXTEND}
    /\ last.res.kind = "event"
    /\ last.res.data = [variant |-> "Vnode", inner |-> "Write"]

\* the sub-flags of the process decoding and their payloads, in the order
\* checked; TRUE where the payload carries the record's data field
ProcOrder ==
    << <<NOTE_EXIT, "Exit", TRUE>>, <<NOTE_FORK, "Fork", FALSE>>,
       <<NOTE_EXEC, "Exec", FALSE>>, <<NOTE_TRACK, "Track", TRUE>>,
       <<NOTE_CHILD, "Child", TRUE>> >>

\* the filter types Event::new decodes
SupportedFilters ==
    {EVFILT_READ, EVFILT_WRITE, EVFILT_SIGNAL, EVFILT_TIMER, EVFILT_PROC, EVFILT_VNODE}

\* C14: decoding a process record yields the payload of the first sub-flag set,
\* in the order exit, fork, exec, track, child, with Exit, Track and Child
\* carrying the record's data field; with none of them set, or with a filter
\* type outside read, write, signal, timer, process and vnode, the decoding
\* aborts.
C14_ProcPayloadOfFirstFlag ==
    (last.op = "Event_new")
        => /\ (last.kev.filter = EVFILT_PROC)
                => /\ \A i \in 1..Len(ProcOrder) :
                        (/\ ProcOrder[i][1] \in last.kev.fflags
                         /\ \A j \in 1..(i - 1) : ProcOrder[j][1] \notin last.kev.fflags)
                            => /\ last.res.kind = "event"
                               /\ last.res.data =
                                    (IF ProcOrder[i][3]
                                     THEN [variant |-> "Proc", inner |-> ProcOrder[i][2],
                                           arg |-> last.kev.data]
                                     ELSE [variant |-> "Proc", inner |-> ProcOrder[i][2]])
                   /\ (\A i \in 1..Len(ProcOrder) : ProcOrder[i][1] \notin last.kev.fflags)
                        => last.res.kind = "panic"
           /\ (last.kev.filter \notin SupportedFilters) => last.res.kind = "panic"

\* C14 witness: a process record with track and child both set was decoded to
\* the Track payload carrying the record's data field.
C14_Witness ==
    /\ last.op = "Event_new"
    /\ last.kev.filter = EVFILT_PROC
    /\ last.kev.fflags = {NOTE_TRACK, NOTE_CHILD}
    /\ last.kev.data = 2
    /\ last.res.kind = "event"
    /\ last.res.data = [variant |-> "Proc", inner |-> "Track", arg |-> 2]

RemoveOps == {"remove_pid", "remove_fd", "remove_file", "remove_filename"}

\* the entry is one the remove operation with this argument asks to drop
EntryMatches(op, arg, w) ==
    \/ op = "remove_pid" /\ w.ident.tag = "Pid" /\ w.ident.num = arg
    \/ op \in {"remove_fd", "remove_file"} /\ w.ident.tag = "Fd" /\ w.ident.num = arg
    \/ op = "remove_filename" /\ w.ident.tag = "Filename" /\ w.ident.name = arg

\* C15: when the kernel deregistration call of a remove_* returns -1 the
\* operation returns an error, the matching entries are dropped from the list
\* all the same (the other entries stay, in order), and `started` is unchanged.
C15_RemoveErrorKeepsTheDrop ==
    [][(last'.op \in RemoveOps /\ kcalls'[1].ret = -1)
            => /\ last'.ret = "Err"
               /\ \A i \in 1..Len(watched') :
                    ~EntryMatches(last'.op, last'.arg, watched'[i])
               /\ watched' = SelectSeq(watched,
                                LAMBDA w : ~EntryMatches(last'.op, last'.arg, w))
               /\ started' = started]_vars

\* C15 witness: a remove_* whose deregistration returned -1 has returned an
\* error and the list is shorter than before the call.
C15_Witness ==
    /\ last.op \in RemoveOps
    /\ kcalls[1].ret = -1
    /\ last.ret = "Err"
    /\ Len(watched) < last.lenBefore

\* C16: remove_filename for a path that is not in the registration list is
\* inert: it returns success, leaves the list unchanged and changes no interest
\* registered in the kernel, in every reachable state.
C16_RemoveUnknownPathIsInert ==
    [][(last'.op = "remove_filename" /\ ~HoldsPath(watched, last'.arg))
            => /\ last'.ret = "Ok"
               /\ watched' = watched
               /\ knotes' = knotes]_vars

\* the descriptor remove_filename deregisters: that of the last entry of the
\* path in the list, 0 when there is none
PathDescriptor(list, path) ==
    LET hits == {i \in 1..Len(list) :
                    list[i].ident.tag = "Filename" /\ list[i].ident.name = path}
    IN  IF hits = {} THEN 0
        ELSE list[CHOOSE i \in hits : \A j \in hits : j <= i].ident.num

\* C17: every remove_* drops from the list every entry of its identity variant
\* with that pid / descriptor / path, whatever the entry's filter and flags,
\* keeps the other entries in order, leaves `started` and the options alone,
\* and issues exactly one kernel change submission of one record {numeric
\* identity, filter f, DELETE}, before a commit as well as after one.
C17_RemoveDropsAndDeregisters ==
    [][(last'.op \in RemoveOps)
            => /\ watched' = SelectSeq(watched,
                                LAMBDA w : ~EntryMatches(last'.op, last'.arg, w))
               /\ started' = started
               /\ clear' = clear
               /\ Len(kcalls') = 1
               /\ kcalls'[1].call = "kevent"
               /\ kcalls'[1].nevents = 0
               /\ kcalls'[1].changes =
                    << [ident |-> IF last'.op = "remove_filename"
                                  THEN PathDescriptor(watched, last'.arg)
                                  ELSE last'.arg,
                        filter |-> last'.filter,
                        flags |-> {EV_DELETE},
                        fflags |-> {},
                        data |-> 0] >>]_vars

\* C17 witness: before any commit, remove_filename has dropped the two entries
\* of its path (they differ in filter or flags) and submitted its one record.
C17_Witness ==
    /\ last.op = "remove_filename"
    /\ watchCalls = 0
    /\ last.lenBefore = 2
    /\ watched = <<>>
    /\ Len(kcalls) = 1
    /\ Len(kcalls[1].changes) = 1
    /\ kcalls[1].changes[1].ident = 3

\* the step is a poll, or a next() on a started watcher
WaitStep(op, st) == op = "poll" \/ (op = "next" /\ st)

\* what C18 and its amended form share: one kernel wait with room for one
\* record and no changes; no event exactly when the wait returns 0; the list,
\* `started` and the options unchanged
WaitFrame(calls, res, w0, w1, s0, s1, c0, c1) ==
    /\ Len(calls) = 1
    /\ calls[1].call = "kevent"
    /\ calls[1].changes = <<>>
    /\ calls[1].nevents = 1
    /\ calls[1].returns => ((res.kind = "none") <=> (calls[1].ret = 0))
    /\ w1 = w0
    /\ s1 = s0
    /\ c1 = c0

KernelPairs == { <<k.ident, k.filter>> : k \in knotes }

\* the (numeric identity, filter) pairs of the entries of the registration list
ListPairs == { <<watched[i].ident.num, watched[i].filter>> : i \in 1..Len(watched) }

\* C19: in any state reached by a successful watch() followed only by remove_*
\* calls that all returned success, the interests registered in the kernel
\* queue and the entries of the registration list have the same (numeric
\* identity, filter type) pairs.
C19_KernelAgreesWithList ==
    onlyRemoves => KernelPairs = ListPairs

\* C20: identity equality is symmetric, two Filename identities are equal
\* exactly when their paths are equal (whatever their descriptors), and
\* identities of different variants are never equal.
C20_IdentEqSeparatesVariants ==
    (last.op = "Ident_eq")
        => /\ last.ab = last.ba
           /\ (last.a.tag = "Filename" /\ last.b.tag = "Filename")
                => (last.ab <=> (last.a.name = last.b.name))
           /\ (last.a.tag # last.b.tag) => ~last.ab

====
